---- MODULE Spec2Model ----
(***************************************************************************)
(* Model of the recovery middleware (package recovery): New, Handler,      *)
(* SetPanicHandler and defaultPanicHandler, together with the pieces of    *)
(* net/http, log and runtime whose behaviour the middleware relies on      *)
(* (ResponseWriter, http.Error, log.Logger.Printf, runtime.Stack).         *)
(*                                                                         *)
(* Strings are sequences of tokens, so that concatenation, truncation and  *)
(* the trailing newline of http.Error are visible to the checks.           *)
(***************************************************************************)
EXTENDS Integers, Sequences, FiniteSets, TLC

(* ------------------------------ bounds -------------------------------- *)

\* number of requests served concurrently through the one Recovery instance
NumReqs == 2

\* number of SetPanicHandler calls made after construction
MaxSets == 1

\* largest explicit Options.StackSize tried (the stack text has 6 tokens)
MaxStackSize == 4

Reqs == 1..NumReqs

(* ------------------------- program constants -------------------------- *)

\* 8 * 1024
DefaultStackSize == 8192

\* log.Ldate | log.Ltime
LstdFlags == 3

Ldate == 1

Ltime == 2

Lshortfile == 16

StatusOK == 200

StatusBadRequest == 400

StatusInternalServerError == 500

Min(a, b) == IF a < b THEN a ELSE b

\* the i-th bit of a flag word, i a power of two
HasFlag(flags, bit) == (flags \div bit) % 2 = 1

(* ------------------------------ Options ------------------------------- *)

\* a nil io.Writer in Options.Out
NilWriter == "nil"

Stderr == "os.Stderr"

\* Options{} : every field at its zero value
ZeroOptions ==
  [IncludeFullStack |-> FALSE, StackSize |-> 0, Prefix |-> <<>>,
   DisableAutoBrackets |-> FALSE, Out |-> NilWriter, OutputFlags |-> 0]

StackSizes == {-1, 0} \cup {2, MaxStackSize}

Prefixes == {<<>>, <<"app">>}

Writers == {NilWriter, "buf"}

FlagValues == {-1, 0, Ldate, LstdFlags, Lshortfile}

Options ==
  [IncludeFullStack : BOOLEAN, StackSize : StackSizes, Prefix : Prefixes,
   DisableAutoBrackets : BOOLEAN, Out : Writers, OutputFlags : FlagValues]

\* the second, ignored, configuration of a New(opt1, opt2) call
Opt2 == [ZeroOptions EXCEPT !.Out = Stderr, !.OutputFlags = -1]

\* the argument lists New is called with: none, one, or two configurations
OptsInputs ==
  {<<>>} \cup {<<o>> : o \in Options} \cup {<<o, Opt2>> : o \in Options}

(* -------------------------------- New --------------------------------- *)

ResolveStackSize_NegativeOnly(o) ==
  IF o.StackSize < 0 THEN DefaultStackSize ELSE o.StackSize

ResolveStackSize(o) ==
  IF o.StackSize <= 0 THEN DefaultStackSize ELSE o.StackSize

ResolvePrefix_AlwaysBrackets(o) ==
  IF Len(o.Prefix) > 0
  THEN <<"[">> \o o.Prefix \o <<"] ">>
  ELSE o.Prefix

ResolvePrefix(o) ==
  IF Len(o.Prefix) > 0 /\ o.DisableAutoBrackets = FALSE
  THEN <<"[">> \o o.Prefix \o <<"] ">>
  ELSE o.Prefix

ResolveOutput(o) ==
  IF o.Out # NilWriter THEN o.Out ELSE Stderr

ResolveFlags_NoSentinel(o) ==
  IF o.OutputFlags # 0 THEN o.OutputFlags ELSE LstdFlags

ResolveFlags(o) ==
  IF o.OutputFlags = -1 THEN 0
  ELSE IF o.OutputFlags # 0 THEN o.OutputFlags
  ELSE LstdFlags

\* log.New(out, prefix, flag)
LogNew(out, prefix, flag) == [out |-> out, prefix |-> prefix, flag |-> flag]

\* the dynamic value of an http.Handler interface: its type word and data word
DefaultHandler == [typ |-> "HandlerFunc", data |-> "defaultPanicHandler"]

New(opts) ==
  LET o0 == IF Len(opts) = 0 THEN ZeroOptions ELSE opts[1]
      o  == [o0 EXCEPT !.StackSize = ResolveStackSize(o0)]
  IN  [Logger       |-> LogNew(ResolveOutput(o), ResolvePrefix(o), ResolveFlags(o)),
       opt          |-> o,
       panicHandler |-> DefaultHandler]

(* --------------------------- ResponseWriter --------------------------- *)

\* httptest.NewRecorder(): nothing written, Code reads 200
NewRecorder == [wroteHeader |-> FALSE, Code |-> StatusOK, Body |-> <<>>]

\* only the first WriteHeader takes effect
WriteHeader(w, code) ==
  IF w.wroteHeader THEN w ELSE [w EXCEPT !.wroteHeader = TRUE, !.Code = code]

\* a Write before any WriteHeader sends the header with status 200
Write(w, b) ==
  LET w1 == WriteHeader(w, StatusOK) IN [w1 EXCEPT !.Body = @ \o b]

StatusText(code) ==
  CASE code = StatusInternalServerError -> "Internal Server Error"
    [] code = StatusBadRequest -> "Bad Request"
    [] OTHER -> "OK"

\* http.Error(w, error, code): WriteHeader(code), then Fprintln(w, error)
HttpError(w, text, code) == Write(WriteHeader(w, code), <<text, "\n">>)

defaultPanicHandler_NoStatus(w) ==
  Write(w, <<StatusText(StatusInternalServerError), "\n">>)

defaultPanicHandler(w) ==
  HttpError(w, StatusText(StatusInternalServerError), StatusInternalServerError)

(* ------------------------- downstream handlers ------------------------ *)

\* the value recover() returns when there is no panic
NilErr == "nil"

\* what a downstream handler does: nothing, a WriteHeader or a Write, and
\* then it returns or panics with a value; or it panics with nil at once
NextHandlers ==
  {n \in [hdr : {0, StatusBadRequest}, body : {<<>>, <<"bar">>},
          end : {"return", "panic", "panicnil"}] :
     /\ n.hdr = 0 \/ n.body = <<>>
     /\ n.end = "panicnil" => (n.hdr = 0 /\ n.body = <<>>)}

myHandler == [hdr |-> 0, body |-> <<"bar">>, end |-> "return"]

myPanicHandler == [hdr |-> 0, body |-> <<>>, end |-> "panic"]

\* the writes next.ServeHTTP(w, req) makes before it returns or panics
RunNext(w, n) ==
  LET w1 == IF n.hdr # 0 THEN WriteHeader(w, n.hdr) ELSE w
  IN  IF n.body # <<>> THEN Write(w1, n.body) ELSE w1

\* the values recover() can return in the deferred function after next ends.
\* panic(nil) is recovered as nil by toolchains before Go 1.21 (or with
\* GODEBUG=panicnil=1) and as a *runtime.PanicNilError otherwise.
RecoverValues(n) ==
  CASE n.end = "return"   -> {NilErr}
    [] n.end = "panic"    -> {"this did not work"}
    [] n.end = "panicnil" -> {NilErr, "PanicNilError"}

(* -------------------------- fallback handlers ------------------------- *)

customHandler == [typ |-> "HandlerFunc", data |-> "customHandler"]

\* a handler that panics, of a dynamic type other than http.HandlerFunc
panickingHandler == [typ |-> "*panicker", data |-> "panickingHandler"]

NilHandler == [typ |-> "nil", data |-> "nil"]

\* the handlers SetPanicHandler is called with
HandlerArgs == {customHandler, panickingHandler, NilHandler}

WholeHandlers == HandlerArgs \cup {DefaultHandler}

\* r.panicHandler.ServeHTTP(w, req) for the interface value h: the set of
\* possible results [w, panics].  A value whose two words do not belong
\* together (a torn read) has no defined behaviour.
ServeFallback(h, w) ==
  CASE h = DefaultHandler   -> {[w |-> defaultPanicHandler(w), panics |-> FALSE]}
    [] h = customHandler    ->
         {[w |-> Write(WriteHeader(w, StatusBadRequest), <<"You got 400 yo!">>),
           panics |-> FALSE]}
    [] h = panickingHandler -> {[w |-> w, panics |-> TRUE]}
    [] h.typ = "nil"        -> {[w |-> w, panics |-> TRUE]}
    [] OTHER                -> {[w |-> w, panics |-> p] : p \in BOOLEAN}

(* ---------------------------- stack and log --------------------------- *)

\* the text runtime.Stack produces for the goroutine that recovered
OwnStack == <<"goroutine 5 [running]:", "recovery.go", "thisapp.go", "server.go">>

\* the text it appends for the other goroutines when all is true
OtherStacks == <<"goroutine 1 [IO wait]:", "main.go">>

\* everything runtime.Stack has to say
FullStack(all) == OwnStack \o (IF all THEN OtherStacks ELSE <<>>)

\* stack := make([]byte, size); stack = stack[:runtime.Stack(stack, all)]
RuntimeStack(size, all) ==
  SubSeq(FullStack(all), 1, Min(size, Len(FullStack(all))))

\* the header log.Logger puts before the message: prefix, then date, time, file
LogHeader(l) ==
  l.prefix \o (IF HasFlag(l.flag, Ldate) THEN <<"2014/12/05 ">> ELSE <<>>)
           \o (IF HasFlag(l.flag, Ltime) THEN <<"23:15:11 ">> ELSE <<>>)
           \o (IF HasFlag(l.flag, Lshortfile) THEN <<"recovery.go:88: ">> ELSE <<>>)

\* r.Printf("Recovering from Panic: %s\n%s", err, stack): one line for the sink
Printf(l, err, stack) ==
  LogHeader(l) \o <<"Recovering from Panic: ", err, "\n">> \o stack \o <<"\n">>

Recovered_Always(err) == TRUE

\* err != nil in the deferred function
Recovered(err) == err # NilErr

AfterNext_NoRecover(n, err) == IF n.end = "return" THEN "returned" ELSE "panicked"

\* where the wrapper is after next ended and the deferred function called
\* recover(): recover() stops the panic, and the body runs if err != nil
AfterNext(n, err) == IF Recovered(err) THEN "loadTyp" ELSE "returned"

AfterStep_LogFirst(pc) ==
  CASE pc = "loadTyp"  -> "loadData"
    [] pc = "loadData" -> "stack"
    [] pc = "stack"    -> "log"
    [] pc = "log"      -> "fallback"
    [] pc = "fallback" -> "returned"

AfterStep_NoLog(pc) ==
  CASE pc = "loadTyp"  -> "loadData"
    [] pc = "loadData" -> "fallback"
    [] pc = "fallback" -> "stack"
    [] pc = "stack"    -> "returned"
    [] pc = "log"      -> "returned"

\* the order of the statements of the deferred function once err != nil
AfterStep(pc) ==
  CASE pc = "loadTyp"  -> "loadData"
    [] pc = "loadData" -> "fallback"
    [] pc = "fallback" -> "stack"
    [] pc = "stack"    -> "log"
    [] pc = "log"      -> "returned"

AfterFallback_Swallow(panics) == AfterStep("fallback")

\* nothing in the deferred function recovers a panic of the fallback handler
AfterFallback(panics) == IF panics THEN "panicked" ELSE AfterStep("fallback")

(* ------------------------------- state -------------------------------- *)

VARIABLES
  args,          \* the configurations New was called with
  opt,           \* r.opt
  logger,        \* r.Logger
  panicHandler,  \* r.panicHandler, as its two words
  setter,        \* the SetPanicHandler call in progress, if any
  nsets,         \* number of SetPanicHandler calls started so far
  req,           \* per request: the wrapped handler and the position in it
  sink           \* the Write calls made on the logger's output, by request

vars == <<args, opt, logger, panicHandler, setter, nsets, req, sink>>

\* no SetPanicHandler call in progress; h is the handler installed last
IdleSetter == [pc |-> "idle", h |-> DefaultHandler]

\* a request that no wrapper has been built for yet.  hTyp and hData hold the
\* handler value from its load to its call.  fresh and early record history
\* up to that call.  fresh: the handler was read with no store racing the read and
\* no SetPanicHandler call started since.  early: the wrapper was built
\* before any SetPanicHandler call (dropped once the read is not fresh).
\* After the call fresh stays set only if the call panicked, so that the state
\* a panic leaves the wrapper in tells whether the handler was one read whole.
NewReq ==
  [pc |-> "new", next |-> myHandler, early |-> FALSE, w |-> NewRecorder,
   err |-> NilErr, hTyp |-> "nil", hData |-> "nil", fresh |-> FALSE,
   stack |-> <<>>, trace |-> <<>>]

InitWith(inputs) ==
  \E opts \in inputs :
    LET r == New(opts) IN
      /\ args = opts
      /\ opt = r.opt
      /\ logger = r.Logger
      /\ panicHandler = r.panicHandler
      /\ setter = IdleSetter
      /\ nsets = 0
      /\ req = [i \in Reqs |-> NewReq]
      /\ sink = [i \in Reqs |-> <<>>]

(* ------------------------------ actions ------------------------------- *)

\* r.Handler(next): builds the wrapper that request i will be served by
Handler(i, next) ==
  /\ req[i].pc = "new"
  /\ req' = [req EXCEPT ![i].pc = "wrapped", ![i].next = next,
                        ![i].early = (nsets = 0)]
  /\ UNCHANGED <<args, opt, logger, panicHandler, setter, nsets, sink>>

\* the wrapper is called: next.ServeHTTP(w, req) runs, then the deferred
\* function calls recover()
ServeNext(i) ==
  /\ req[i].pc = "wrapped"
  /\ \E e \in RecoverValues(req[i].next) :
       req' = [req EXCEPT
                 ![i].w = RunNext(@, req[i].next),
                 ![i].err = e,
                 ![i].trace = Append(@, "next"),
                 ![i].early = (@ /\ Recovered(e)),
                 ![i].pc = AfterNext(req[i].next, e)]
  /\ UNCHANGED <<args, opt, logger, panicHandler, setter, nsets, sink>>

\* r.panicHandler is read without synchronisation: type word first
LoadTyp(i) ==
  /\ req[i].pc = "loadTyp"
  /\ req' = [req EXCEPT
               ![i].hTyp = panicHandler.typ,
               ![i].fresh = (setter.pc = "idle"),
               ![i].early = (@ /\ setter.pc = "idle"),
               ![i].pc = AfterStep("loadTyp")]
  /\ UNCHANGED <<args, opt, logger, panicHandler, setter, nsets, sink>>

LoadData_Captured(i) ==
  /\ req[i].pc = "loadData"
  /\ req' = [req EXCEPT
               ![i].hData = DefaultHandler.data,
               ![i].pc = AfterStep("loadData")]
  /\ UNCHANGED <<args, opt, logger, panicHandler, setter, nsets, sink>>

\* then the data word
LoadData(i) ==
  /\ req[i].pc = "loadData"
  /\ req' = [req EXCEPT
               ![i].hData = panicHandler.data,
               ![i].pc = AfterStep("loadData")]
  /\ UNCHANGED <<args, opt, logger, panicHandler, setter, nsets, sink>>

\* r.panicHandler.ServeHTTP(w, req); a panic in it leaves the deferred
\* function and the wrapper
Fallback(i) ==
  /\ req[i].pc = "fallback"
  /\ \E res \in ServeFallback([typ |-> req[i].hTyp, data |-> req[i].hData], req[i].w) :
       req' = [req EXCEPT
                 ![i].w = res.w,
                 ![i].hTyp = "nil", ![i].hData = "nil",
                 ![i].early = FALSE, ![i].fresh = (@ /\ res.panics),
                 ![i].trace = Append(@, "fallback"),
                 ![i].pc = AfterFallback(res.panics)]
  /\ UNCHANGED <<args, opt, logger, panicHandler, setter, nsets, sink>>

\* stack := make([]byte, r.opt.StackSize); stack = stack[:runtime.Stack(...)]
Stack(i) ==
  /\ req[i].pc = "stack"
  /\ req' = [req EXCEPT
               ![i].stack = RuntimeStack(opt.StackSize, opt.IncludeFullStack),
               ![i].trace = Append(@, "stack"),
               ![i].pc = AfterStep("stack")]
  /\ UNCHANGED <<args, opt, logger, panicHandler, setter, nsets, sink>>

\* r.Printf(...): one Write call on the output.  Printf drops the error the
\* Write returns, so the Write either returns or panics, and a panic in it
\* leaves the wrapper.
Log(i) ==
  /\ req[i].pc = "log"
  /\ \E panics \in BOOLEAN :
       /\ sink' = [sink EXCEPT ![i] = Append(@,
                      [out |-> logger.out,
                       line |-> Printf(logger, req[i].err, req[i].stack)])]
       /\ req' = [req EXCEPT
                    ![i].trace = Append(@, "log"),
                    ![i].pc = IF panics THEN "panicked" ELSE AfterStep("log")]
  /\ UNCHANGED <<args, opt, logger, panicHandler, setter, nsets>>

\* r.panicHandler = handler, an unsynchronised two-word store: type word.
\* A read it races with is no longer fresh.
SetPanicHandler(h) ==
  /\ setter.pc = "idle"
  /\ nsets < MaxSets
  /\ panicHandler' = [panicHandler EXCEPT !.typ = h.typ]
  /\ setter' = [pc |-> "storing", h |-> h]
  /\ nsets' = nsets + 1
  /\ req' = [i \in Reqs |->
               IF req[i].pc \in {"loadData", "fallback"}
               THEN [req[i] EXCEPT !.fresh = FALSE, !.early = FALSE] ELSE req[i]]
  /\ UNCHANGED <<args, opt, logger, sink>>

\* ... then data word, after which SetPanicHandler returns
SetPanicHandlerDone ==
  /\ setter.pc = "storing"
  /\ panicHandler' = [panicHandler EXCEPT !.data = setter.h.data]
  /\ setter' = [setter EXCEPT !.pc = "idle"]
  /\ UNCHANGED <<args, opt, logger, nsets, req, sink>>

\* the downstream handlers request i is tried with: every behaviour for the
\* last request, the two handlers of the tests for the others
Downstream(i) == IF i = NumReqs THEN NextHandlers ELSE {myHandler, myPanicHandler}

Serve(i) ==
  \/ \E n \in Downstream(i) : Handler(i, n)
  \/ ServeNext(i)
  \/ LoadTyp(i)
  \/ LoadData(i)
  \/ Fallback(i)
  \/ Stack(i)
  \/ Log(i)

Swap ==
  \/ \E h \in HandlerArgs : SetPanicHandler(h)
  \/ SetPanicHandlerDone

\* concurrent requests and swaps on a Recovery built by New()
Init == InitWith({<<>>})

Next == (\E i \in Reqs : Serve(i)) \/ Swap

Spec == Init /\ [][Next]_vars

\* one request and swaps on a Recovery built from every configuration
InitNew == InitWith(OptsInputs)

NextNew == Serve(1) \/ Swap

SpecNew == InitNew /\ [][NextNew]_vars

(* ------------------------- reading the state ------------------------- *)

Count(tr, e) == Cardinality({k \in DOMAIN tr : tr[k] = e})

Has(tr, e) == \E k \in DOMAIN tr : tr[k] = e

IsPrefix(a, b) == Len(a) <= Len(b) /\ a = SubSeq(b, 1, Len(a))

\* the handler value request i loaded for its fallback call
Loaded(i) == [typ |-> req[i].hTyp, data |-> req[i].hData]

\* the wrapper serving request i has been called and has ended
Done(i) == req[i].pc \in {"returned", "panicked"}

\* next has been called for request i
Ran(i) == req[i].trace # <<>>

\* next has been called for request i and panicked
Faulted(i) == Ran(i) /\ req[i].next.end # "return"

\* what next had written when it ended
Written(i) == RunNext(NewRecorder, req[i].next)

RecoverySteps == <<"next", "fallback", "stack", "log">>

(* ------------------------------- claims ------------------------------- *)

\* C1, as stated: whenever the downstream handler panics, no panic leaves the
\* wrapper: the caller always sees a normal return.  (Read in the claim's
\* favour: the fallback handler is one that was installed whole, read with no
\* SetPanicHandler call racing the read, and the sink's Write returns.)
C1_NoFaultEscapes ==
  \A i \in Reqs :
    (Faulted(i) /\ req[i].pc = "panicked") =>
      (req[i].trace[Len(req[i].trace)] = "fallback" => ~req[i].fresh)

\* C1, amended: the downstream handler's own panic never leaves the wrapper
\* and is never re-raised; a panic leaves the wrapper only when the fallback
\* handler call or the sink's Write panics, and otherwise the wrapper returns.
C1_DownstreamFaultContained ==
  \A i \in Reqs :
    /\ req[i].pc = "panicked" =>
         req[i].trace[Len(req[i].trace)] \in {"fallback", "log"}
    /\ Count(req[i].trace, "next") <= 1
    /\ (Faulted(i) /\ ~Recovered(req[i].err)) => req[i].pc = "returned"

C1_Witness ==
  \E i \in Reqs :
    /\ req[i].next = myPanicHandler
    /\ req[i].pc = "returned"
    /\ req[i].trace = RecoverySteps

\* C2: when next returns normally the wrapper has called next once, has not
\* called the fallback handler, has captured no stack and written nothing to
\* the sink, and the response is exactly what next wrote.
C2_PassThrough ==
  \A i \in Reqs :
    (Ran(i) /\ req[i].next.end = "return") =>
      /\ req[i].pc = "returned"
      /\ req[i].trace = <<"next">>
      /\ req[i].stack = <<>>
      /\ sink[i] = <<>>
      /\ req[i].w = Written(i)
      /\ req[i].next = myHandler =>
           (req[i].w.Code = StatusOK /\ req[i].w.Body = <<"bar">>)

C2_Witness ==
  \E i, j \in Reqs :
    /\ req[i].next = myHandler /\ req[i].pc = "returned"
    /\ req[j].next = myPanicHandler /\ req[j].pc = "returned"
    /\ Len(sink[j]) = 1

\* C3, as stated: with no SetPanicHandler call since New, every faulting
\* request ends with status 500 and the status text as its body, whatever
\* next wrote before it panicked.  (Read in the claim's favour: the panic
\* value is not nil, and a newline after the text is let pass.)
C3_AlwaysPlain500 ==
  \A i \in Reqs :
    (nsets = 0 /\ Faulted(i) /\ Recovered(req[i].err) /\ req[i].pc = "returned") =>
      /\ req[i].w.Code = StatusInternalServerError
      /\ req[i].w.Body \in {<<StatusText(StatusInternalServerError)>>,
                            <<StatusText(StatusInternalServerError), "\n">>}

\* C3, amended: with no SetPanicHandler call since New, a request whose
\* downstream panic is recovered with a non-nil value gets the default
\* handler: the status text and a newline are appended to the body, and the
\* status is 500 unless next had already sent a header, which then stands.
\* If next wrote nothing: status 500, body the status text and a newline.
C3_DefaultResponse ==
  \A i \in Reqs :
    /\ (nsets = 0 /\ Faulted(i) /\ Recovered(req[i].err) /\ Done(i)) =>
         Has(req[i].trace, "fallback")
    /\ (nsets = 0 /\ Has(req[i].trace, "fallback")) =>
         /\ req[i].w.Body =
              Written(i).Body \o <<"Internal Server Error", "\n">>
         /\ req[i].w.Code = IF Written(i).wroteHeader
                            THEN Written(i).Code
                            ELSE StatusInternalServerError

C3_Witness ==
  \E i \in Reqs :
    /\ nsets = 0
    /\ req[i].next = myPanicHandler
    /\ req[i].pc = "returned"
    /\ req[i].w.Code = StatusInternalServerError
    /\ req[i].w.Body = <<"Internal Server Error", "\n">>

C5_RecoveryOrder ==
  \A i \in Reqs :
    /\ IsPrefix(req[i].trace, RecoverySteps)
    /\ req[i].pc = "stack" => req[i].trace = <<"next", "fallback">>
    /\ req[i].pc = "log" => req[i].trace = <<"next", "fallback", "stack">>
    /\ Len(sink[i]) > 0 => req[i].trace = RecoverySteps

C5_Witness ==
  \E i, j \in Reqs :
    /\ req[i].trace = RecoverySteps /\ Len(sink[i]) = 1
    /\ req[j].pc = "log" /\ Len(sink[j]) = 0

\* C6, as stated: every request whose downstream handler panicked has, once
\* it is over, exactly one fallback call and exactly one sink write.  (Read
\* in the claim's favour: the panic value is not nil, and the fallback
\* handler was not read during a racing SetPanicHandler call.)
C6_OneCallOneWrite ==
  \A i \in Reqs :
    (Faulted(i) /\ Recovered(req[i].err) /\ Done(i)) =>
      \/ Count(req[i].trace, "fallback") = 1 /\ Len(sink[i]) = 1
      \/ req[i].pc = "panicked" /\ ~req[i].fresh /\ sink[i] = <<>>

\* C6, amended: under any interleaving, a request whose downstream panic is
\* recovered with a non-nil value has exactly one fallback call, and one sink
\* write if that call returned, none if it panicked; next is never called
\* again; a request that did not fault, or whose panic(nil) is recovered as
\* nil, has no fallback call and no sink write.
C6_OncePerRecoveredFault ==
  \A i \in Reqs :
    /\ Count(req[i].trace, "next") <= 1
    /\ Count(req[i].trace, "fallback") <= 1
    /\ Len(sink[i]) = Count(req[i].trace, "log")
    /\ Len(sink[i]) <= 1
    /\ (Done(i) /\ Recovered(req[i].err)) =>
         /\ Count(req[i].trace, "fallback") = 1
         /\ Len(sink[i]) = (IF Has(req[i].trace, "stack") THEN 1 ELSE 0)
         /\ Has(req[i].trace, "stack") <=> req[i].trace[Len(req[i].trace)] = "log"
    /\ (Done(i) /\ ~Recovered(req[i].err)) =>
         (Count(req[i].trace, "fallback") = 0 /\ sink[i] = <<>>)

C6_Witness ==
  \E i, j \in Reqs :
    /\ i # j
    /\ Done(i) /\ Faulted(i) /\ Len(sink[i]) = 1
    /\ Done(j) /\ Faulted(j) /\ Len(sink[j]) = 1

\* the StackSize New was given
GivenStackSize == IF Len(args) = 0 THEN 0 ELSE args[1].StackSize

\* C7: New resolves StackSize to 8192 when the given value is zero or
\* negative and to the given value otherwise, so it is positive; the stack
\* text logged is the first StackSize tokens of the full text, or all of it
\* if shorter; truncating raises nothing: the fallback call has been made
\* and the recovery goes on to write its line.
C7_StackBound ==
  /\ opt.StackSize > 0
  /\ opt.StackSize = (IF GivenStackSize <= 0 THEN 8192 ELSE GivenStackSize)
  /\ \A i \in Reqs :
       Has(req[i].trace, "stack") =>
         /\ Len(req[i].stack) <= opt.StackSize
         /\ IsPrefix(req[i].stack, FullStack(opt.IncludeFullStack))
         /\ Len(req[i].stack) < Len(FullStack(opt.IncludeFullStack)) =>
              Len(req[i].stack) = opt.StackSize
         /\ Has(req[i].trace, "fallback")
         /\ req[i].pc = "log" \/ Has(req[i].trace, "log")
         /\ \A k \in DOMAIN sink[i] :
              sink[i][k].line =
                LogHeader(logger)
                  \o <<"Recovering from Panic: ", req[i].err, "\n">>
                  \o req[i].stack \o <<"\n">>

C7_Witness ==
  \E i \in Reqs :
    /\ req[i].pc = "returned"
    /\ Len(sink[i]) = 1
    /\ opt.IncludeFullStack
    /\ GivenStackSize = 2
    /\ req[i].stack = <<"goroutine 5 [running]:", "recovery.go">>
    /\ req[i].w.Code = StatusInternalServerError

\* the Prefix and DisableAutoBrackets New was given
GivenPrefix == IF Len(args) = 0 THEN <<>> ELSE args[1].Prefix

GivenDisableAutoBrackets ==
  IF Len(args) = 0 THEN FALSE ELSE args[1].DisableAutoBrackets

BoundPrefix ==
  IF GivenPrefix # <<>> /\ ~GivenDisableAutoBrackets
  THEN <<"[">> \o GivenPrefix \o <<"] ">>
  ELSE GivenPrefix

GivenOutputFlags == IF Len(args) = 0 THEN 0 ELSE args[1].OutputFlags

\* C9: the logger's flags are empty when OutputFlags is -1, date and time
\* when it is 0, and OutputFlags itself for any other value.
C9_FlagResolution ==
  /\ GivenOutputFlags = -1 => logger.flag = 0
  /\ GivenOutputFlags = 0 => logger.flag = Ldate + Ltime
  /\ GivenOutputFlags \notin {-1, 0} => logger.flag = GivenOutputFlags
  /\ \A i \in Reqs : \A k \in DOMAIN sink[i] :
       /\ Has(sink[i][k].line, "2014/12/05 ") <=> GivenOutputFlags \in {0, Ldate, LstdFlags}
       /\ Has(sink[i][k].line, "23:15:11 ") <=> GivenOutputFlags \in {0, LstdFlags}

C9_Witness ==
  \E i \in Reqs :
    /\ GivenOutputFlags = -1
    /\ logger.flag = 0
    /\ Len(sink[i]) = 1
    /\ sink[i][1].line[Len(logger.prefix) + 1] = "Recovering from Panic: "

\* C10: when the fallback handler called during a recovery panics (a handler
\* that panics, or a nil handler), the panic leaves the wrapper, no stack is
\* captured and no line is written for the request.
C10_SecondaryFaultEscapes ==
  /\ [][\A i \in Reqs :
         (/\ req[i].pc = "fallback" /\ req'[i].pc # "fallback"
          /\ Loaded(i) \in {panickingHandler, NilHandler} \/ req[i].hTyp = "nil") =>
           /\ req'[i].pc = "panicked"
           /\ req'[i].trace = <<"next", "fallback">>
           /\ req'[i].w = req[i].w]_vars
  /\ [](\A i \in Reqs :
         (req[i].pc = "panicked" /\ req[i].trace = <<"next", "fallback">>) =>
           (req[i].stack = <<>> /\ sink[i] = <<>>))

C10_Witness ==
  \E i \in Reqs :
    /\ panicHandler = NilHandler
    /\ setter.pc = "idle"
    /\ Faulted(i)
    /\ req[i].pc = "panicked"
    /\ req[i].trace = <<"next", "fallback">>
    /\ req[i].stack = <<>>
    /\ sink[i] = <<>>

====
